---------------------------- MODULE Spec2Model ----------------------------
(***************************************************************************)
(* A model of FGU_random_cover.py: random covers of Majorana operators by  *)
(* fermionic Gaussian unitaries given as permutations.                     *)
(*                                                                         *)
(* Python tuples and lists are TLA+ sequences.  Python indices are         *)
(* 0-based, so the element p[i] of a Python sequence p is p[i + 1] here;   *)
(* the values stored in a permutation stay 0-based, as in the program.     *)
(* A dict is a function whose DOMAIN is the dict's key set.                *)
(***************************************************************************)
EXTENDS Integers, Sequences, FiniteSets, TLC

VARIABLES
    pc,                   \* position of the running function
    ops_dict,             \* the registry {Majorana indices : count}, mutated in place
    ops_dict0,            \* the registry as it was passed in (kept for comparison)
    n,                    \* number of fermionic orbitals
    k_max,                \* the k_max argument: None or Some(k)
    r,                    \* the threshold r
    Q,                    \* the local Q (a permutation), None while not held
    measured_ops,         \* the local measured_ops (a list of records)
    random_measurements,  \* the cover {permutation : records}
    tally_k_max,          \* tally_majorana_matches' local k_max after line 145
    r2,                   \* second run (pair specification): its threshold
    pc2,                  \* second run: position
    ops_dict2,            \* second run: registry
    random_measurements2, \* second run: cover
    draws,                \* number of permutations the first run has drawn
    draws2,               \* number of permutations the second run has drawn
    indices,              \* permute_majorana's argument (permute specification)
    result                \* permute_majorana's return value

vars == <<pc, ops_dict, ops_dict0, n, k_max, r, Q, measured_ops,
          random_measurements, tally_k_max, r2, pc2, ops_dict2,
          random_measurements2, draws, draws2, indices, result>>

-----------------------------------------------------------------------------
(* Bounds of the model *)

\* thresholds r range over 1..MaxR
MaxR == 3
\* explicit k_max arguments range over 0..MaxK
MaxK == 2
\* initial registry counts range over 0..MaxCount where a registry is not fresh
MaxCount == 2
\* the pair specification feeds at most MaxDraws permutations to the two runs
MaxDraws == 2
\* permute_majorana is applied to index sequences of at most MaxLen elements
MaxLen == 3

-----------------------------------------------------------------------------
(* Python values *)

\* Python's None; an optional integer k is Some(k) = <<k>>
None == <<>>
Some(k) == <<k>>

\* the empty dict
EmptyDict == [x \in {} |-> 0]

\* the Python element s[i] of a sequence s
At(s, i) == s[i + 1]

\* all permutations of {0, ..., N-1} as tuples
Perms(N) ==
    {p : p \in {q \in [1..N -> 0..(N - 1)] : \A i, j \in 1..N : q[i] = q[j] => i = j}}

\* np.arange(N): the tuple (0, 1, ..., N-1), the identity permutation
arange(N) == [i \in 1..N |-> i - 1]

-----------------------------------------------------------------------------
(* Functions for permutation matrices *)

\* perm_parity, mutated: the comparison reversed (input_list[i] < input_list[j])
perm_parity_lt(input_list) ==
    Cardinality({ij \in (1..Len(input_list)) \X (1..Len(input_list)) :
                    ij[1] < ij[2] /\ input_list[ij[1]] < input_list[ij[2]]}) % 2

\* perm_parity: the number of pairs i < j with input_list[i] > input_list[j], mod 2
perm_parity(input_list) ==
    Cardinality({ij \in (1..Len(input_list)) \X (1..Len(input_list)) :
                    ij[1] < ij[2] /\ input_list[ij[1]] > input_list[ij[2]]}) % 2

\* (-1)**e for an exponent e >= 0
MinusOneToThe(e) == IF e % 2 = 0 THEN 1 ELSE -1

-----------------------------------------------------------------------------
(* Functions for measurement counts *)

\* list.sort(): insertion of x into an ascending list, before the first larger element
RECURSIVE InsertSorted(_, _)
InsertSorted(x, s) ==
    IF s = <<>> THEN <<x>>
    ELSE IF x <= Head(s) THEN <<x>> \o s
    ELSE <<Head(s)>> \o InsertSorted(x, Tail(s))

\* list.sort(): the list in ascending order
RECURSIVE Sort(_)
Sort(l) == IF l = <<>> THEN <<>> ELSE InsertSorted(Head(l), Sort(Tail(l)))

\* permute_majorana: the images Q[i] of the indices, sorted, and the sign of
\* the permutation that sorts them
permute_majorana(idx, perm) ==
    LET l == [m \in 1..Len(idx) |-> At(perm, idx[m])]
        sign == MinusOneToThe(perm_parity(l))
    IN  <<Sort(l), sign>>

\* np.argsort of distinct values: position k holds the (0-based) index of the
\* k-th smallest element
argsort(a) ==
    [k \in 1..Len(a) |->
        (CHOOSE i \in 1..Len(a) :
            Cardinality({j \in 1..Len(a) : a[j] < a[i]}) = k - 1) - 1]

\* invert_permutation, mutated: the permutation returned as it is
invert_permutation_id(permutation) == permutation

\* invert_permutation: np.arange(len(permutation))[np.argsort(permutation)]
invert_permutation(permutation) ==
    LET order == argsort(permutation)
    IN  [k \in 1..Len(permutation) |-> At(arange(Len(permutation)), order[k])]


\* itertools.combinations(range(lo, hi), j): the ascending j-tuples over
\* {lo, ..., hi-1}, in lexicographic order
RECURSIVE combinations_from(_, _, _)
combinations_from(lo, hi, j) ==
    IF j = 0 THEN << <<>> >>
    ELSE IF lo >= hi THEN <<>>
    ELSE LET rest == combinations_from(lo + 1, hi, j - 1)
             with == [m \in 1..Len(rest) |-> <<lo>> \o rest[m]]
         IN  with \o combinations_from(lo + 1, hi, j)

\* itertools.combinations(range(num), j)
combinations(num, j) == combinations_from(0, num, j)

\* diag_index = [2*p + i for p in P for i in range(2)]
diag_index_of(P) ==
    [m \in 1..(2 * Len(P)) |-> 2 * P[(m + 1) \div 2] + ((m - 1) % 2)]

\* range(1, k_max+1), mutated: one body-order too many
body_orders_plus_one(k) == [j \in 1..(k + 1) |-> j]

\* range(1, k_max+1): the body-orders j the outer loop of line 151 visits
body_orders(k) == [j \in 1..k |-> j]

\* the combinations P visited by the two nested loops, in order
RECURSIVE candidates_from(_, _, _)
candidates_from(orders, m, num) ==
    IF m > Len(orders) THEN <<>>
    ELSE combinations(num, orders[m]) \o candidates_from(orders, m + 1, num)

\* ops_dict[permuted_diag_index] += 1, mutated: the count is left as it is
increment_none(d, key) == d

\* ops_dict[permuted_diag_index] += 1, mutated: the count is bumped twice
increment_twice(d, key) == [d EXCEPT ![key] = @ + 2]

\* ops_dict[permuted_diag_index] += 1
increment(d, key) == [d EXCEPT ![key] = @ + 1]

\* lines 158-161: the match is counted and recorded if permuted_diag_index
\* is a key of the registry; st is [ops_dict, measured_ops]
tally_match(st, permuted_diag_index, diag_index, sign) ==
    IF permuted_diag_index \in DOMAIN st.ops_dict
    THEN [ops_dict |-> increment(st.ops_dict, permuted_diag_index),
          measured_ops |-> Append(st.measured_ops,
                                  <<permuted_diag_index, diag_index, sign>>)]
    ELSE st

\* lines 155-161 for one diag_index:
\* permuted_diag_index, sign = permute_majorana(diag_index, Q_inv)
tally_diag(st, diag_index, Q_inv) ==
    LET pm == permute_majorana(diag_index, Q_inv)
    IN  tally_match(st, pm[1], diag_index, pm[2])

\* the body of the inner loop (lines 153-161) run for the combinations
\* cands[m], cands[m+1], ...
RECURSIVE tally_loop(_, _, _, _)
tally_loop(cands, m, perm, st) ==
    IF m > Len(cands) THEN st
    ELSE tally_loop(cands, m + 1, perm,
                    tally_diag(st, diag_index_of(cands[m]), invert_permutation(perm)))

\* max([len(term) for term in ops_dict]) of a non-empty dict
max_len(d) == CHOOSE m \in {Len(t) : t \in DOMAIN d} :
                  \A t \in DOMAIN d : Len(t) <= m

\* lines 144-145: the k_max the loops use
default_k_max(d, k) == IF k = None THEN max_len(d) ELSE k[1]

\* lines 147-163 with the local k_max = kk: the loops and the return
tally_with(d, perm, kk) ==
    LET num == Len(perm) \div 2
        st == tally_loop(candidates_from(body_orders(kk), 1, num), 1, perm,
                         [ops_dict |-> d, measured_ops |-> <<>>])
    IN  [raised |-> FALSE, k_max |-> Some(kk)] @@ st

\* tally_majorana_matches(ops_dict, Q, k_max): the registry after the call,
\* the returned list, the local k_max, and whether the call raised
\* (max() of an empty list raises ValueError)
tally_majorana_matches(d, perm, k) ==
    IF k = None /\ DOMAIN d = {}
    THEN [raised |-> TRUE, ops_dict |-> d, measured_ops |-> <<>>, k_max |-> k]
    ELSE tally_with(d, perm, default_k_max(d, k))

\* line 196, mutated: the comparison reversed (counts > r)
loop_condition_gt(d, rr) == \E t \in DOMAIN d : d[t] > rr

\* line 196, mutated: all() in place of any()
loop_condition_all(d, rr) == \A t \in DOMAIN d : d[t] < rr

\* line 196: any(counts < r for counts in ops_dict.values())
loop_condition(d, rr) == \E t \in DOMAIN d : d[t] < rr

\* line 198, mutated: the membership test left out
is_duplicate_never(perm, cover) == FALSE

\* line 198, mutated: the membership test negated
is_duplicate_negated(perm, cover) == perm \notin DOMAIN cover

\* line 198: Q in random_measurements
is_duplicate(perm, cover) == perm \in DOMAIN cover

\* lines 204-205: random_measurements[Q] = measured_ops when the list is non-empty
insert(cover, perm, mo) ==
    IF Len(mo) > 0
    THEN [x \in DOMAIN cover \cup {perm} |-> IF x = perm THEN mo ELSE cover[x]]
    ELSE cover

\* lines 204-205 after the call of lines 201-202 returned t
loop_body_fresh(cover, perm, t) ==
    [ops_dict |-> t.ops_dict,
     random_measurements |-> insert(cover, perm, t.measured_ops)]

\* one pass through the loop body (lines 197-205) with the drawn permutation
\* perm: the registry and the cover after it
loop_body(d, cover, perm, k) ==
    IF is_duplicate(perm, cover)
    THEN [ops_dict |-> d, random_measurements |-> cover]
    ELSE loop_body_fresh(cover, perm, tally_majorana_matches(d, perm, k))

-----------------------------------------------------------------------------
(* construct_random_measurements_FGU, one step at a time *)

\* a registry with every count 0 (the example driver's lines 222-225)
Fresh(keys) == [t \in keys |-> 0]

\* the k_max arguments: None, or an integer in 0..MaxK
KMaxArgs == {None} \cup {Some(k) : k \in 0..MaxK}

\* Inputs whose runs stay small for every threshold: registries over one or
\* two orbitals, with keys that can be diagonalized and keys that cannot
\* (odd length, index out of range, body-order above n)
NarrowInputs ==
    {[n |-> 1, ops_dict |-> d] :
        d \in {EmptyDict,
               Fresh({<<0, 1>>}),
               [t \in {<<0, 1>>} |-> 1],
               Fresh({<<0, 1>>, <<0, 1, 2>>}),
               Fresh({<<0, 1>>, <<0, 2>>}),
               Fresh({<<0, 1>>, <<1, 0>>}),
               Fresh({<<0, 1>>, <<0, 1, 2, 3>>})}}
    \cup
    {[n |-> 2, ops_dict |-> d] :
        d \in {Fresh({<<0, 1>>}),
               Fresh({<<0, 1>>, <<2, 3>>})}}
    \cup
    {[n |-> 0, ops_dict |-> d] : d \in {EmptyDict, Fresh({<<0, 1>>})}}

\* Inputs with fixed k_max and threshold: two keys diagonalized by different
\* permutations, and a two-body key with and without the body-order it needs
WideInputs ==
    {[n |-> 2, ops_dict |-> Fresh({<<0, 1>>, <<0, 2>>}), k_max |-> Some(1), r |-> 1],
     [n |-> 2, ops_dict |-> Fresh({<<0, 1>>, <<0, 2>>}), k_max |-> None, r |-> 1],
     [n |-> 2, ops_dict |-> Fresh({<<0, 1>>, <<0, 1, 2, 3>>}), k_max |-> Some(1), r |-> 1],
     [n |-> 2, ops_dict |-> Fresh({<<0, 1, 2, 3>>}), k_max |-> Some(2), r |-> 2],
     [n |-> 2, ops_dict |-> Fresh({<<0, 1, 2, 3>>}), k_max |-> None, r |-> 1]}

CoverInputs ==
    {[n |-> i.n, ops_dict |-> i.ops_dict, k_max |-> k, r |-> rr] :
        i \in NarrowInputs, k \in KMaxArgs, rr \in 1..MaxR}
    \cup WideInputs

\* the variables the cover construction does not use
PairIdle ==
    /\ r2 = 0 /\ pc2 = "idle" /\ ops_dict2 = EmptyDict
    /\ random_measurements2 = EmptyDict /\ draws = 0 /\ draws2 = 0
PermuteIdle == indices = <<>> /\ result = <<>>

\* line 194: the call of construct_random_measurements_FGU(ops_dict, n, k_max, r)
Init ==
    /\ \E i \in CoverInputs :
          /\ n = i.n /\ ops_dict = i.ops_dict /\ k_max = i.k_max /\ r = i.r
          /\ ops_dict0 = i.ops_dict
    /\ pc = "while"
    /\ Q = None
    /\ measured_ops = <<>>
    /\ random_measurements = EmptyDict
    /\ tally_k_max = None
    /\ PairIdle
    /\ PermuteIdle

\* the permutations of 0, 2 and 4 elements: the values of rand_sym_perm(2*n)
\* for n = 0, 1, 2
AllPerms == {perm : perm \in Perms(0) \cup Perms(2) \cup Perms(4)}

\* rand_sym_perm(N): the tuples np.random.permutation(np.arange(N)) can return
rand_sym_perm(N) == {perm \in AllPerms : Len(perm) = N}

\* lines 196-197: the loop condition holds and Q = rand_sym_perm(2*n) is drawn
Draw(perm) ==
    /\ pc = "while"
    /\ loop_condition(ops_dict, r)
    /\ perm \in rand_sym_perm(2 * n)
    /\ Q' = perm
    /\ pc' = "drawn"
    /\ UNCHANGED <<ops_dict, ops_dict0, n, k_max, r, measured_ops,
                   random_measurements, tally_k_max, r2, pc2, ops_dict2,
                   random_measurements2, draws, draws2, indices, result>>

\* lines 196, 207: the loop condition fails and the cover is returned
Return ==
    /\ pc = "while"
    /\ ~loop_condition(ops_dict, r)
    /\ pc' = "done"
    /\ UNCHANGED <<ops_dict, ops_dict0, n, k_max, r, Q, measured_ops,
                   random_measurements, tally_k_max, r2, pc2, ops_dict2,
                   random_measurements2, draws, draws2, indices, result>>

\* lines 198-199: Q is already a key of the cover: continue.  (The locals Q
\* and measured_ops are dead at the top of the loop; Q is cleared there.)
Skip ==
    /\ pc = "drawn"
    /\ is_duplicate(Q, random_measurements)
    /\ pc' = "while"
    /\ Q' = None
    /\ UNCHANGED <<ops_dict, ops_dict0, n, k_max, r, measured_ops,
                   random_measurements, tally_k_max, r2, pc2, ops_dict2,
                   random_measurements2, draws, draws2, indices, result>>

\* lines 201-202: measured_ops = tally_majorana_matches(ops_dict, Q, k_max=k_max)
Tally ==
    /\ pc = "drawn"
    /\ ~is_duplicate(Q, random_measurements)
    /\ \E t \in {tally_majorana_matches(ops_dict, Q, k_max)} :
           /\ ops_dict' = t.ops_dict
           /\ measured_ops' = t.measured_ops
           /\ tally_k_max' = t.k_max
           /\ pc' = IF t.raised THEN "raised" ELSE "tallied"
    /\ UNCHANGED <<ops_dict0, n, k_max, r, Q, random_measurements, r2, pc2,
                   ops_dict2, random_measurements2, draws, draws2, indices, result>>

\* lines 204-205: the permutation is recorded if it measured anything, and
\* the loop starts over
Insert ==
    /\ pc = "tallied"
    /\ random_measurements' = insert(random_measurements, Q, measured_ops)
    /\ pc' = "while"
    /\ Q' = None
    /\ measured_ops' = <<>>
    /\ tally_k_max' = None
    /\ UNCHANGED <<ops_dict, ops_dict0, n, k_max, r, r2, pc2, ops_dict2,
                   random_measurements2, draws, draws2, indices, result>>

Next ==
    \/ \E perm \in AllPerms : Draw(perm)
    \/ Return
    \/ Skip
    \/ Tally
    \/ Insert

Spec == Init /\ [][Next]_vars

\* lines 197-198 when the drawn permutation is not yet a key of the cover
DrawFresh ==
    \E perm \in AllPerms : perm \notin DOMAIN random_measurements /\ Draw(perm)

\* the program keeps running, and the random draw is fair: while permutations
\* that are not in the cover can be drawn again and again, one of them is
\* drawn in the end
Fairness ==
    /\ WF_vars(Next)
    /\ SF_vars(DrawFresh)

\* the runs whose every behaviour is examined: all inputs over at most one
\* orbital, and over two orbitals the registry {(0,1): 0} with k_max = 1 and
\* r <= 2
LiveInit ==
    /\ Init
    /\ \/ n <= 1
       \/ n = 2 /\ ops_dict = Fresh({<<0, 1>>}) /\ k_max = Some(1) /\ r <= 2

LiveSpec == LiveInit /\ [][Next]_vars /\ Fairness

-----------------------------------------------------------------------------
(* Two runs of construct_random_measurements_FGU on the same draws *)

\* the registries the two runs start from
PairInputs ==
    {[n |-> 1, ops_dict |-> d, k_max |-> k] :
        d \in [{<<0, 1>>} -> 0..MaxCount], k \in KMaxArgs}
    \cup
    {[n |-> 2, ops_dict |-> d, k_max |-> Some(1)] :
        d \in {Fresh({<<0, 1>>}), Fresh({<<0, 1>>, <<0, 2>>})}}

\* both runs get the same registry, n and k_max, and thresholds r <= r2
PairInit ==
    /\ \E i \in PairInputs :
          /\ n = i.n /\ k_max = i.k_max
          /\ ops_dict = i.ops_dict /\ ops_dict2 = i.ops_dict /\ ops_dict0 = i.ops_dict
    /\ \E rr \in 1..MaxR : \E rr2 \in rr..MaxR : r = rr /\ r2 = rr2
    /\ pc = "while" /\ pc2 = "while"
    /\ random_measurements = EmptyDict /\ random_measurements2 = EmptyDict
    /\ draws = 0 /\ draws2 = 0
    /\ Q = None
    /\ measured_ops = <<>>
    /\ tally_k_max = None
    /\ PermuteIdle

\* lines 196-205 for one run that is handed perm as its next draw: a run whose
\* loop condition fails, or that has returned, returns (line 207)
run_step(p, d, cover, rr, cnt, perm, k) ==
    IF p = "while" /\ loop_condition(d, rr)
    THEN [pc |-> "while", draws |-> cnt + 1] @@ loop_body(d, cover, perm, k)
    ELSE [pc |-> "done", draws |-> cnt, ops_dict |-> d, random_measurements |-> cover]

\* the next permutation of the common sequence is drawn by every run that is
\* still in its loop
PairDraw(perm) ==
    /\ \/ pc = "while" /\ loop_condition(ops_dict, r)
       \/ pc2 = "while" /\ loop_condition(ops_dict2, r2)
    /\ draws < MaxDraws /\ draws2 < MaxDraws
    /\ perm \in rand_sym_perm(2 * n)
    /\ \E s1 \in {run_step(pc, ops_dict, random_measurements, r, draws, perm, k_max)} :
          /\ pc' = s1.pc
          /\ ops_dict' = s1.ops_dict
          /\ random_measurements' = s1.random_measurements
          /\ draws' = s1.draws
    /\ \E s2 \in {run_step(pc2, ops_dict2, random_measurements2, r2, draws2, perm, k_max)} :
          /\ pc2' = s2.pc
          /\ ops_dict2' = s2.ops_dict
          /\ random_measurements2' = s2.random_measurements
          /\ draws2' = s2.draws
    /\ UNCHANGED <<ops_dict0, n, k_max, r, r2, Q, measured_ops, tally_k_max,
                   indices, result>>

\* lines 196, 207: no run draws any more, and the runs still in the loop return
PairReturn ==
    /\ pc = "while" \/ pc2 = "while"
    /\ ~(pc = "while" /\ loop_condition(ops_dict, r))
    /\ ~(pc2 = "while" /\ loop_condition(ops_dict2, r2))
    /\ pc' = "done"
    /\ pc2' = "done"
    /\ UNCHANGED <<ops_dict, ops_dict0, n, k_max, r, Q, measured_ops,
                   random_measurements, tally_k_max, r2, ops_dict2,
                   random_measurements2, draws, draws2, indices, result>>

PairNext ==
    \/ \E perm \in AllPerms : PairDraw(perm)
    \/ PairReturn

SpecPair == PairInit /\ [][PairNext]_vars

-----------------------------------------------------------------------------
(* One call of tally_majorana_matches *)

\* keys of the registries handed to tally_majorana_matches: Majorana
\* operators of one and two bodies, and tuples that are none (odd length,
\* not ascending, index out of range, empty)
TallyKeys ==
    {<<0, 1>>, <<2, 3>>, <<0, 2>>, <<0, 1, 2, 3>>,
     <<0, 1, 2>>, <<1, 0>>, <<0, 4>>, <<>>}

\* registries of at most two keys with counts in 0..MaxCount
TallyRegistries ==
    UNION {[ks -> 0..MaxCount] : ks \in {x \in SUBSET TallyKeys : Cardinality(x) <= 2}}

TallyInit ==
    /\ ops_dict \in TallyRegistries
    /\ ops_dict0 = ops_dict
    /\ Q \in AllPerms
    /\ k_max \in KMaxArgs
    /\ pc = "call"
    /\ n = 0
    /\ r = 0
    /\ measured_ops = <<>>
    /\ random_measurements = EmptyDict
    /\ tally_k_max = None
    /\ PairIdle
    /\ PermuteIdle

\* lines 144-163: tally_majorana_matches(ops_dict, Q, k_max) runs and returns
\* measured_ops, or raises at line 145
TallyCall ==
    /\ pc = "call"
    /\ \E t \in {tally_majorana_matches(ops_dict, Q, k_max)} :
           /\ ops_dict' = t.ops_dict
           /\ measured_ops' = t.measured_ops
           /\ tally_k_max' = t.k_max
           /\ pc' = IF t.raised THEN "raised" ELSE "returned"
           /\ n' = IF t.raised THEN n ELSE Len(Q) \div 2
    /\ UNCHANGED <<ops_dict0, k_max, r, Q, random_measurements, r2, pc2,
                   ops_dict2, random_measurements2, draws, draws2, indices, result>>

TallyNext == TallyCall

SpecTally == TallyInit /\ [][TallyNext]_vars

-----------------------------------------------------------------------------
(* One call of permute_majorana *)

\* the index sequences without duplicates over the domain of perm, of at
\* most MaxLen elements
IndexSequences(perm) ==
    UNION {{s \in [1..len -> 0..(Len(perm) - 1)] :
               \A i, j \in 1..len : s[i] = s[j] => i = j} : len \in 0..MaxLen}

PermuteInit ==
    /\ Q \in AllPerms
    /\ indices \in IndexSequences(Q)
    /\ result = <<>>
    /\ pc = "call"
    /\ ops_dict = EmptyDict /\ ops_dict0 = EmptyDict
    /\ n = 0 /\ k_max = None /\ r = 0
    /\ measured_ops = <<>>
    /\ random_measurements = EmptyDict
    /\ tally_k_max = None
    /\ PairIdle

\* lines 92-96: permute_majorana(indices, Q) returns
PermuteCall ==
    /\ pc = "call"
    /\ result' = permute_majorana(indices, Q)
    /\ pc' = "returned"
    /\ UNCHANGED <<ops_dict, ops_dict0, n, k_max, r, Q, measured_ops,
                   random_measurements, tally_k_max, r2, pc2, ops_dict2,
                   random_measurements2, draws, draws2, indices>>

PermuteNext == PermuteCall

SpecPermute == PermuteInit /\ [][PermuteNext]_vars

-----------------------------------------------------------------------------
(* Notions the properties are stated with *)

\* the program is in its loop and will not return at the next test of line 196
Running ==
    \/ pc \in {"drawn", "tallied"}
    \/ pc = "while" /\ \E t \in DOMAIN ops_dict : ops_dict[t] < r

\* a Majorana operator key over num orbitals: strictly increasing indices in
\* [0, 2*num), of even length 2j with j >= 1
WellFormedKey(t, num) ==
    /\ Len(t) >= 2
    /\ Len(t) % 2 = 0
    /\ \A i \in 1..Len(t) : t[i] \in 0..(2 * num - 1)
    /\ \A i \in 1..(Len(t) - 1) : t[i] < t[i + 1]

\* U(perm) maps the operator t to a diagonal operator of body-order at most
\* k: t is an ascending non-empty tuple over the domain of perm, the images
\* perm[i] of its indices come in pairs {2p, 2p+1}, and there are at most k pairs
Diagonalizes(perm, t, k) ==
    /\ Len(t) >= 1
    /\ \A i \in 1..Len(t) : t[i] \in 0..(Len(perm) - 1)
    /\ \A i \in 1..(Len(t) - 1) : t[i] < t[i + 1]
    /\ LET image == {At(perm, t[i]) : i \in 1..Len(t)}
       IN  /\ \A x \in image : (IF x % 2 = 0 THEN x + 1 ELSE x - 1) \in image
           /\ k = None \/ Cardinality(image) <= 2 * k[1]

\* the permutations of [0, 2*num) that diagonalize t under k
Diagonalizers(t, num, k) ==
    {perm \in AllPerms : Len(perm) = 2 * num /\ Diagonalizes(perm, t, k)}

\* the permutations of the cover under which t is a measured_op
MeasuredUnder(cover, t) ==
    {perm \in DOMAIN cover :
        \E i \in 1..Len(cover[perm]) : cover[perm][i][1] = t}

\* the number of records in the cover
RECURSIVE RecordCount(_, _)
RecordCount(cover, perms) ==
    IF perms = {} THEN 0
    ELSE LET perm == CHOOSE x \in perms : TRUE
         IN  Len(cover[perm]) + RecordCount(cover, perms \ {perm})

\* the strictly increasing tuple with the elements of s
Ascending(s) ==
    CHOOSE t \in [1..Len(s) -> {s[i] : i \in 1..Len(s)}] :
        \A i \in 1..(Len(s) - 1) : t[i] < t[i + 1]

\* the registry was passed in with every count 0
FreshRegistry == \A t \in DOMAIN ops_dict0 : ops_dict0[t] = 0

-----------------------------------------------------------------------------
(* Properties *)

\* C1: when construct_random_measurements_FGU is called with a registry whose
\* counts are all 0 and returns, every count is at least r, every key is the
\* measured_op of a record under at least r distinct permutations of the
\* cover, and the cover holds at least r records per key.
C1_CoverReachesThreshold ==
    (pc = "done" /\ FreshRegistry) =>
        /\ \A t \in DOMAIN ops_dict :
              /\ ops_dict[t] >= r
              /\ Cardinality(MeasuredUnder(random_measurements, t)) >= r
        /\ RecordCount(random_measurements, DOMAIN random_measurements)
              >= r * Cardinality(DOMAIN ops_dict)

\* C1, its case: a run over two keys with r >= 2 has returned
C1_Witness ==
    /\ pc = "done"
    /\ FreshRegistry
    /\ Cardinality(DOMAIN ops_dict) = 2
    /\ r >= 2
    /\ \A t \in DOMAIN ops_dict : ops_dict[t] >= r

\* the input of C2: n = 1, registry {(0,1): 0}, k_max = 1, r = 1
C2_Input ==
    /\ n = 1
    /\ ops_dict0 = Fresh({<<0, 1>>})
    /\ k_max = Some(1)
    /\ r = 1

\* the result C2 promises: the run has returned after one recorded draw, the
\* cover holds a permutation with the one record ((0,1),(0,1),+-1), and the
\* count of (0,1) is at least 1
C2_Result ==
    /\ C2_Input
    /\ pc = "done"
    /\ ops_dict[<<0, 1>>] >= 1
    /\ Cardinality(DOMAIN random_measurements) = 1
    /\ \E perm \in DOMAIN random_measurements : \E sign \in {1, -1} :
          random_measurements[perm] = << <<<<0, 1>>, <<0, 1>>, sign>> >>

\* C2: for n = 1, registry {(0,1): 0}, k_max = 1 and r = 1 every run reaches
\* the return, whatever permutations are drawn, with the result above.
C2_SmallestRunTerminates == (C2_Input /\ pc = "while") ~> C2_Result

\* C2, its case: the run has returned with its result
C2_Witness == C2_Result

\* the counts of the registry are what was passed in plus one per record of
\* the cover naming the key
CoverAccountsForCounts ==
    \A t \in DOMAIN ops_dict :
        ops_dict[t] = ops_dict0[t] + Cardinality(MeasuredUnder(random_measurements, t))

\* C3: the cover only grows and no entry is written twice; a drawn
\* permutation that is already a key of the cover is skipped with the registry
\* and the cover unchanged; the registry changes only in the tally of a
\* permutation that is not in the cover; so between iterations each
\* permutation of the cover has contributed to the counts exactly once.
C3_DuplicatesSkipped ==
    [][/\ \A perm \in DOMAIN random_measurements :
              /\ perm \in DOMAIN random_measurements'
              /\ random_measurements'[perm] = random_measurements[perm]
       /\ (pc = "drawn" /\ Q \in DOMAIN random_measurements) =>
              /\ ops_dict' = ops_dict
              /\ random_measurements' = random_measurements
              /\ pc' = "while"
       /\ ops_dict' # ops_dict =>
              /\ pc = "drawn"
              /\ Q \notin DOMAIN random_measurements
       /\ random_measurements' # random_measurements =>
              /\ Q \notin DOMAIN random_measurements
              /\ DOMAIN random_measurements' = DOMAIN random_measurements \cup {Q}
       /\ pc' \in {"while", "done"} => CoverAccountsForCounts'
      ]_vars

\* C3, its case: a permutation that is already in the cover has been drawn
C3_Witness ==
    /\ pc = "drawn"
    /\ Q \in DOMAIN random_measurements
    /\ \E t \in DOMAIN ops_dict : ops_dict[t] > 0

\* C4: one call of tally_majorana_matches leaves the key set of the registry
\* unchanged, decreases no count, increases each count by at most 1, and
\* returns as many records as there are keys whose count increased.
C4_TallyCountsOnce ==
    pc = "returned" =>
        /\ DOMAIN ops_dict = DOMAIN ops_dict0
        /\ \A t \in DOMAIN ops_dict0 :
              ops_dict0[t] <= ops_dict[t] /\ ops_dict[t] <= ops_dict0[t] + 1
        /\ Len(measured_ops) =
              Cardinality({t \in DOMAIN ops_dict0 : ops_dict[t] > ops_dict0[t]})

\* C4, its case: a call over a registry with counts above 0 matched one key
\* and left another alone
C4_Witness ==
    /\ pc = "returned"
    /\ Len(measured_ops) = 1
    /\ \E t, u \in DOMAIN ops_dict0 :
          /\ ops_dict0[t] > 0 /\ ops_dict[t] = ops_dict0[t] + 1
          /\ ops_dict0[u] > 0 /\ ops_dict[u] = ops_dict0[u]

\* the body-order bound C5 speaks of: k_max, or half the longest key when
\* k_max is None
C5_Bound == IF k_max = None THEN max_len(ops_dict0) \div 2 ELSE k_max[1]

\* d is the ascending union of the pairs {2p, 2p+1} over j orbitals p in
\* [0, num), with 1 <= j <= kk
C5_DiagonalOp(d, num, kk) ==
    \E j \in 1..kk :
        /\ Len(d) = 2 * j
        /\ \A i \in 1..j :
              /\ d[2 * i - 1] % 2 = 0
              /\ d[2 * i - 1] \div 2 \in 0..(num - 1)
              /\ d[2 * i] = d[2 * i - 1] + 1
              /\ i < j => d[2 * i] < d[2 * i + 1]

\* C5: every record (measured_op, diagonal_op, sign) tally_majorana_matches
\* returns has a registry key as measured_op, a diagonal operator of
\* body-order 1..k_max as diagonal_op, and the forward action of Q on
\* measured_op gives it: permute_majorana(measured_op, Q) = (diagonal_op, sign).
C5_RecordsAreForwardAction ==
    pc = "returned" =>
        \A i \in 1..Len(measured_ops) :
            /\ measured_ops[i][1] \in DOMAIN ops_dict0
            /\ C5_DiagonalOp(measured_ops[i][2], Len(Q) \div 2, C5_Bound)
            /\ permute_majorana(measured_ops[i][1], Q)
                  = <<measured_ops[i][2], measured_ops[i][3]>>

\* C5, its case: a permutation that is not its own inverse measured a two-body
\* operator with sign -1
C5_Witness ==
    /\ pc = "returned"
    /\ invert_permutation(Q) # Q
    /\ \E i \in 1..Len(measured_ops) :
          Len(measured_ops[i][1]) = 4 /\ measured_ops[i][3] = -1

\* C6 as stated: with Q the identity permutation, permute_majorana returns the
\* indices sorted ascending with sign +1, for every index sequence without
\* duplicates in the domain of Q.
C6_IdentityGivesPlusOne ==
    (pc = "returned" /\ Q = arange(Len(Q))) => result = <<Ascending(indices), 1>>

\* C6, amended: with Q the identity permutation, permute_majorana returns the
\* indices sorted ascending; the sign is +1 when the indices were passed in
\* ascending order, and in general it is -1 to the number of inversions of
\* the sequence passed in.
C6_IdentityGivesInputParity ==
    (pc = "returned" /\ Q = arange(Len(Q))) =>
        /\ result[1] = Ascending(indices)
        /\ indices = Ascending(indices) => result[2] = 1
        /\ result[2] = 1 <=>
              Cardinality({ij \in (1..Len(indices)) \X (1..Len(indices)) :
                              ij[1] < ij[2] /\ indices[ij[1]] > indices[ij[2]]}) % 2 = 0
        /\ result[2] \in {1, -1}

\* C6, its case: the identity applied to an ascending sequence of two or more
\* indices
C6_Witness ==
    /\ pc = "returned"
    /\ Q = arange(Len(Q))
    /\ Len(indices) >= 2
    /\ result = <<indices, 1>>

\* C7: of two runs started from equal registries with the same n and k_max
\* and fed the same permutations, with thresholds r <= r2, the run with r2
\* never returns before the other, has drawn at least as many permutations,
\* and its cover holds every entry of the other's cover.
C7_MoreWorkForLargerThreshold ==
    pc2 \in {"while", "done"} =>
        /\ pc2 = "done" => pc = "done"
        /\ draws <= draws2
        /\ \A perm \in DOMAIN random_measurements :
              /\ perm \in DOMAIN random_measurements2
              /\ random_measurements2[perm] = random_measurements[perm]

\* C7, its case: both runs have returned, and the run with the larger
\* threshold drew more and recorded more
C7_Witness ==
    /\ pc = "done" /\ pc2 = "done"
    /\ r < r2
    /\ draws < draws2
    /\ DOMAIN random_measurements # DOMAIN random_measurements2

\* C8: when k_max is None, the body-order bound tally_majorana_matches uses
\* is the maximum key length of the registry divided by 2.
C8_DefaultBoundIsHalfMaxLength ==
    (pc = "returned" /\ k_max = None) =>
        tally_k_max = Some(max_len(ops_dict0) \div 2)

\* the precondition of C9 as stated: n >= 1, a well-formed registry, r >= 1
C9_Input ==
    /\ n >= 1
    /\ r >= 1
    /\ \A t \in DOMAIN ops_dict : WellFormedKey(t, n)

\* some permutation of [0, 2n) is not yet a key of the cover
C9_SomePermutationLeft ==
    \E perm \in AllPerms : Len(perm) = 2 * n /\ perm \notin DOMAIN random_measurements

\* C9 as stated: in every running state, for n >= 1, a well-formed registry
\* and r >= 1, some permutation of [0, 2n) is not yet a key of the cover.
C9_RetryAlwaysHasFreshPermutation ==
    (Running /\ C9_Input) => C9_SomePermutationLeft

\* some key still below r is diagonalized, under k_max, by at least r
\* permutations of [0, 2n)
C9_ThresholdAttainable ==
    \E t \in DOMAIN ops_dict :
        ops_dict[t] < r /\ Cardinality(Diagonalizers(t, n, k_max)) >= r

\* C9, amended: in every running state with n >= 1, a well-formed registry
\* and r >= 1 in which some key still below r is diagonalized by at least r
\* permutations, some permutation of [0, 2n) is not yet a key of the cover;
\* and from the top of the loop in such a state, under fair drawing, a
\* permutation that is not in the cover is eventually drawn and tallied.
C9_RetryEndsWhileThresholdAttainable ==
    /\ []((Running /\ C9_Input /\ C9_ThresholdAttainable) => C9_SomePermutationLeft)
    /\ (pc = "while" /\ C9_Input /\ C9_ThresholdAttainable) ~> (pc = "tallied")

\* C9, its case: a permutation that is not in the (non-empty) cover has been
\* drawn and tallied
C9_Witness ==
    /\ pc = "tallied"
    /\ C9_Input
    /\ DOMAIN random_measurements # {}
    /\ Q \notin DOMAIN random_measurements
    /\ Len(measured_ops) > 0

\* C10: if the registry holds a key with count below r that no permutation of
\* [0, 2n) diagonalizes under k_max, the run never returns: in every state it
\* is in its loop, nothing was raised, and the count of that key is unchanged.
C10_UncoverableKeyNeverReturns ==
    pc \in {"while", "drawn", "tallied", "raised", "done"} =>
        \A t \in DOMAIN ops_dict0 :
            (ops_dict0[t] < r /\ Diagonalizers(t, n, k_max) = {}) =>
                /\ pc \in {"while", "drawn", "tallied"}
                /\ ops_dict[t] = ops_dict0[t]

\* C10, its case: a run whose registry holds a key of body-order above k_max
\* has covered its other key r times and is still in its loop
C10_Witness ==
    /\ pc = "while"
    /\ n = 2
    /\ \E t \in DOMAIN ops_dict0 :
          ops_dict0[t] < r /\ Diagonalizers(t, n, k_max) = {} /\ Len(t) = 4
    /\ \E t \in DOMAIN ops_dict : ops_dict[t] >= r

=============================================================================
